---------------------------- MODULE Spec2Model ----------------------------
(***************************************************************************)
(* A model of subsai's command line pipeline (src/subsai/cli.py) and of    *)
(* the construction of its whisper-timestamped backend                     *)
(* (src/subsai/models/whisper_timestamped_model.py).                       *)
(*                                                                         *)
(* Text is a sequence of one-character strings, so that line splitting,    *)
(* suffix tests and path parsing are computed and not assumed.  A path is  *)
(* a record [abs, parts] as pathlib parses it.  An optional value is <<>>  *)
(* (None) or <<v>>.                                                        *)
(***************************************************************************)
EXTENDS Integers, Sequences, FiniteSets, TLC

(***************************************************************************)
(* Bounds of the model.                                                    *)
(***************************************************************************)
MaxArgs == 2
MaxLines == 3

(***************************************************************************)
(* Text helpers.                                                           *)
(***************************************************************************)
NL == "\n"

Whitespace == {" ", NL}

RECURSIVE Concat(_)
Concat(ss) == IF ss = <<>> THEN <<>> ELSE Head(ss) \o Concat(Tail(ss))

\* str.endswith
EndsWith(s, suf) ==
    /\ Len(s) >= Len(suf)
    /\ SubSeq(s, Len(s) - Len(suf) + 1, Len(s)) = suf

\* str.rstrip(): the text without its trailing whitespace
RECURSIVE RStrip(_)
RStrip(s) ==
    IF s # <<>> /\ s[Len(s)] \in Whitespace
    THEN RStrip(SubSeq(s, 1, Len(s) - 1))
    ELSE s

\* file.readlines(): the lines of a text, each keeping its terminator
RECURSIVE ReadLinesFrom(_, _)
ReadLinesFrom(text, cur) ==
    IF text = <<>>
    THEN IF cur = <<>> THEN <<>> ELSE <<cur>>
    ELSE IF Head(text) = NL
         THEN <<Append(cur, NL)>> \o ReadLinesFrom(Tail(text), <<>>)
         ELSE ReadLinesFrom(Tail(text), Append(cur, Head(text)))

ReadLines(text) == ReadLinesFrom(text, <<>>)

(***************************************************************************)
(* pathlib.                                                                *)
(***************************************************************************)
\* the components of a text between its "/" separators
RECURSIVE SplitSlash(_, _)
SplitSlash(s, cur) ==
    IF s = <<>>
    THEN <<cur>>
    ELSE IF Head(s) = "/"
         THEN <<cur>> \o SplitSlash(Tail(s), <<>>)
         ELSE SplitSlash(Tail(s), Append(cur, Head(s)))

\* pathlib drops empty and "." components
KeepPart(c) == c # <<>> /\ c # <<".">>

\* pathlib.Path(text)
PathOf(s) ==
    [abs   |-> s # <<>> /\ s[1] = "/",
     parts |-> SelectSeq(SplitSlash(s, <<>>), KeepPart)]

\* the working directory of the process
Cwd == [abs |-> TRUE, parts |-> << <<"w">> >>]

\* Path.absolute()
Absolute(p) ==
    IF p.abs THEN p ELSE [abs |-> TRUE, parts |-> Cwd.parts \o p.parts]

\* Path.name
Name(p) == IF p.parts = <<>> THEN <<>> ELSE p.parts[Len(p.parts)]

\* the index of the last "." of a name, 0 when it has none (str.rfind)
RECURSIVE RFindDot(_, _)
RFindDot(n, i) ==
    IF i = 0 THEN 0 ELSE IF n[i] = "." THEN i ELSE RFindDot(n, i - 1)

\* Path.stem: the name without its last suffix; a leading or a trailing dot
\* starts no suffix
Stem(p) ==
    LET n == Name(p)
        i == RFindDot(n, Len(n))
    IN  IF 1 < i /\ i < Len(n) THEN SubSeq(n, 1, i - 1) ELSE n

\* Path.parent
Parent(p) ==
    IF p.parts = <<>>
    THEN p
    ELSE [abs |-> p.abs, parts |-> SubSeq(p.parts, 1, Len(p.parts) - 1)]

\* the / operator of a path and a text
Div(p, s) ==
    LET q == PathOf(s)
    IN  IF q.abs THEN q ELSE [abs |-> p.abs, parts |-> p.parts \o q.parts]


(***************************************************************************)
(* The whisper-timestamped backend: its schema and its construction.       *)
(* A configuration value is the text of its Python literal.                *)
(***************************************************************************)
\* whisper_timestamped.available_models(), a list of the external library
AvailableModels == {"tiny", "base"}

\* get_available_devices(), a list of the external library
AvailableDevices == {"cpu"}

NoOptions == <<>>

Entry(type, options, default) ==
    [type |-> type, options |-> options, default |-> default]

\* the keys of config_schema in declaration order (naive_approach is written
\* twice in the dict literal, with the same entry: a dict keeps it once)
SchemaKeys ==
    << "model_type", "device", "download_root", "in_memory", "verbose",
       "temperature", "compression_ratio_threshold", "logprob_threshold",
       "no_speech_threshold", "condition_on_previous_text", "task",
       "language", "sample_len", "best_of", "beam_size", "patience",
       "length_penalty", "suppress_tokens", "fp16",
       "remove_punctuation_from_words", "refine_whisper_precision",
       "min_word_duration", "plot_word_alignment", "seed", "naive_approach" >>

SchemaKeySet == {SchemaKeys[i] : i \in 1..Len(SchemaKeys)}

config_schema ==
    [k \in SchemaKeySet |->
       CASE k = "model_type" -> Entry("list", <<AvailableModels>>, "base")
         [] k = "device" -> Entry("list", <<{"None"} \cup AvailableDevices>>, "None")
         [] k = "download_root" -> Entry("str", NoOptions, "None")
         [] k = "in_memory" -> Entry("bool", NoOptions, "False")
         [] k = "verbose" -> Entry("bool", NoOptions, "None")
         [] k = "temperature" -> Entry("Tuple", NoOptions, "(0.0, 0.2, 0.4, 0.6, 0.8, 1.0)")
         [] k = "compression_ratio_threshold" -> Entry("float", NoOptions, "2.4")
         [] k = "logprob_threshold" -> Entry("float", NoOptions, "-1.0")
         [] k = "no_speech_threshold" -> Entry("float", NoOptions, "0.6")
         [] k = "condition_on_previous_text" -> Entry("bool", NoOptions, "True")
         [] k = "task" -> Entry("list", <<{"transcribe", "translate"}>>, "transcribe")
         [] k = "language" -> Entry("str", NoOptions, "None")
         [] k = "sample_len" -> Entry("int", NoOptions, "None")
         [] k = "best_of" -> Entry("int", NoOptions, "None")
         [] k = "beam_size" -> Entry("int", NoOptions, "None")
         [] k = "patience" -> Entry("float", NoOptions, "None")
         [] k = "length_penalty" -> Entry("float", NoOptions, "None")
         [] k = "suppress_tokens" -> Entry("str", NoOptions, "-1")
         [] k = "fp16" -> Entry("bool", NoOptions, "True")
         [] k = "remove_punctuation_from_words" -> Entry("bool", NoOptions, "False")
         [] k = "refine_whisper_precision" -> Entry("float", NoOptions, "0.5")
         [] k = "min_word_duration" -> Entry("float", NoOptions, "0.04")
         [] k = "plot_word_alignment" -> Entry("float", NoOptions, "0.04")
         [] k = "seed" -> Entry("int", NoOptions, "1234")
         [] k = "naive_approach" -> Entry("bool", NoOptions, "False")]

\* the kind of value a schema type asks for
ValueKind(type) ==
    CASE type = "str" -> "string"
      [] type \in {"int", "float"} -> "number"
      [] type = "bool" -> "boolean"
      [] type = "Tuple" -> "tuple"
      [] type = "list" -> "one-of-list"

\* the kind of a value, read off its literal
KindOf(v) ==
    CASE v \in {"True", "False"} -> "boolean"
      [] v \in {"7", "1234", "0.5", "2.4"} -> "number"
      [] v = "(0.0, 1.0)" -> "tuple"
      [] v = "None" -> "none"
      [] OTHER -> "string"

Ok(v) == [ok |-> TRUE, val |-> v, err |-> ""]

Err(e) == [ok |-> FALSE, val |-> "", err |-> e]

\* whether a user's value is one the schema entry accepts
ValueAccepted(v, entry) ==
    IF entry.options # NoOptions
    THEN v \in entry.options[1]
    ELSE KindOf(v) = ValueKind(entry.type)

\* subsai.utils._load_config(config_name, model_config, config_schema)
LoadConfig(config_name, model_config, schema) ==
    IF config_name \notin DOMAIN schema
    THEN Err("UnknownOptionError")
    ELSE IF config_name \in DOMAIN model_config
         THEN IF ValueAccepted(model_config[config_name], schema[config_name])
              THEN Ok(model_config[config_name])
              ELSE Err("InvalidOptionValueError")
         ELSE Ok(schema[config_name].default)

\* what a class instance has before __init__ assigns anything
ClassAttrs == {"model_name", "config_schema", "transcribe"}

\* the options __init__ assigns as attributes of the instance, in order
NamedAttrs ==
    << "model_type", "device", "download_root", "in_memory", "verbose",
       "temperature", "compression_ratio_threshold", "logprob_threshold",
       "no_speech_threshold", "condition_on_previous_text" >>

EmptyMap == [k \in {} |-> ""]

\* the options of `keys` loaded one after the other: the first failure raises
RECURSIVE LoadEach(_, _, _)
LoadEach(keys, model_config, acc) ==
    IF keys = <<>>
    THEN [ok |-> TRUE, err |-> "", vals |-> acc]
    ELSE LET r == LoadConfig(Head(keys), model_config, config_schema)
         IN  IF r.ok
             THEN LoadEach(Tail(keys), model_config, acc @@ (Head(keys) :> r.val))
             ELSE [ok |-> FALSE, err |-> r.err, vals |-> acc]

\* hasattr asked of the schema instead of the instance
HasAttrOfSchema(attrs, config) ==
    config \in ClassAttrs \cup DOMAIN attrs \cup SchemaKeySet

\* hasattr(self, config) once the named attributes are assigned
HasAttr(attrs, config) == config \in ClassAttrs \cup DOMAIN attrs

\* the keys the comprehension of decode_options visits
DecodeKeys(attrs) ==
    LET Rest(k) == ~HasAttr(attrs, k) IN SelectSeq(SchemaKeys, Rest)

\* __init__ with decode_options loaded from an empty configuration
WhisperInitDecodeDefaults(model_config) ==
    LET named == LoadEach(NamedAttrs, model_config, EmptyMap)
        dec   == LoadEach(DecodeKeys(named.vals), EmptyMap, EmptyMap)
    IN  [ok |-> named.ok /\ dec.ok, err |-> named.err, attrs |-> named.vals,
         decode_options |-> IF named.ok /\ dec.ok THEN dec.vals ELSE EmptyMap]

\* WhisperTimeStamped.__init__ up to the loading of the model
WhisperInit(model_config) ==
    LET named == LoadEach(NamedAttrs, model_config, EmptyMap)
    IN  IF ~named.ok
        THEN [ok |-> FALSE, err |-> named.err, attrs |-> named.vals,
              decode_options |-> EmptyMap]
        ELSE LET dec == LoadEach(DecodeKeys(named.vals), model_config, EmptyMap)
             IN  [ok |-> dec.ok, err |-> dec.err, attrs |-> named.vals,
                  decode_options |-> IF dec.ok THEN dec.vals ELSE EmptyMap]

(***************************************************************************)
(* The command line pipeline: cli.run and its helpers.                     *)
(***************************************************************************)
VARIABLES
    media_file_arg,        \* the positional arguments, texts
    list_text,             \* <<text>> of the batch-list file l.txt, <<>> when there is none
    fs,                    \* the paths that exist
    model_name,            \* --model
    model_configs,         \* --model-configs as argparse hands it over
    destination_folder,    \* --destination-folder: <<>> or <<text>>
    subs_format,           \* --format, a text
    translation_model,     \* --translation-model: <<>> or <<identifier>>
    translation_configs,   \* --translation-configs
    pc,                    \* where run is
    files,                 \* the resolved media references
    idx,                   \* the position of the for loop in files
    model,                 \* the transcription backend: <<>> or <<the instance>>
    tr_model,              \* the translation backend: <<>> (None) or <<its instance>>
    subs,                  \* <<>> or <<the document in hand>>
    file_name,             \* <<>> or <<the output path of the file in hand>>
    saved,                 \* output path -> the document last written to it
    log,                   \* what run has done so far, in order
    error                  \* the exception that ended run, "" when none

\* a call of WhisperTimeStamped.transcribe, followed on its own
VARIABLES
    w_pc,                  \* where transcribe is, "idle" when it is not running
    kwargs,                \* <<>> or <<the keywords of the recognition call>>
    results,               \* <<>> or <<the segments of the recognition result>>
    segment,               \* the position of the outer loop in the segments
    word,                  \* the position of the inner loop in the segment's words
    w_subs                 \* the SSAFile transcribe builds, its events in order

inputs ==
    << media_file_arg, list_text, fs, model_name, model_configs,
       destination_folder, subs_format, translation_model, translation_configs >>

whisper_vars == << w_pc, kwargs, results, segment, word, w_subs >>

vars ==
    << media_file_arg, list_text, fs, model_name, model_configs,
       destination_folder, subs_format, translation_model, translation_configs,
       pc, files, idx, model, tr_model, subs, file_name, saved, log, error,
       w_pc, kwargs, results, segment, word, w_subs >>

T_txt == <<".", "t", "x", "t">>

\* the texts the model draws arguments from
T_am == <<"a", ".", "m">>

T_dam == <<"d", "/", "a", ".", "m">>

T_b == <<"b">>

T_list == <<"l">> \o T_txt

T_out == <<"o">>

T_srt == <<"s">>

ArgTexts == {T_am, T_dam, T_list}

LineBodies == {<<>>, T_am, T_b}

\* non-empty sequences over S of at most n elements, and all of at most n
SeqsUpTo(S, n) == UNION {[1..k -> S] : k \in 0..n}

\* a text file: its lines, each ended by a terminator except perhaps the last
TextOf(bodies, final_newline) ==
    LET whole == Concat([i \in 1..Len(bodies) |-> Append(bodies[i], NL)])
    IN  IF final_newline \/ whole = <<>>
        THEN whole
        ELSE SubSeq(whole, 1, Len(whole) - 1)

ListTexts ==
    {TextOf(b, nl) : b \in SeqsUpTo(LineBodies, MaxLines), nl \in BOOLEAN}

\* the transcription models subsai registers, of which src/ holds one
AvailableTranscriptionModels == {"openai/whisper"}

\* available_translation_models(), a list of the external library
AvailableTranslationModels == {"m2m100"}

\* open(file, 'r') of a positional argument: only l.txt is a batch list here
OpenText(file) == IF file = T_list THEN list_text ELSE <<>>

\* _handle_media_file with the lines of a batch list put in front of what the
\* earlier arguments gave
RECURSIVE HandleMediaFileListsFirst(_, _)
HandleMediaFileListsFirst(args, res) ==
    IF args = <<>>
    THEN [ok |-> TRUE, res |-> res]
    ELSE LET file == Head(args)
         IN  IF EndsWith(file, T_txt)
             THEN IF OpenText(file) = <<>>
                  THEN [ok |-> FALSE, res |-> res]
                  ELSE LET lines == ReadLines(OpenText(file)[1])
                       IN  HandleMediaFileListsFirst(Tail(args),
                               [i \in 1..Len(lines) |-> Absolute(PathOf(lines[i]))] \o res)
             ELSE HandleMediaFileListsFirst(Tail(args), Append(res, Absolute(PathOf(file))))

\* _handle_media_file: the references of the arguments handled so far, or the
\* failure of open()
RECURSIVE HandleMediaFile(_, _)
HandleMediaFile(args, res) ==
    IF args = <<>>
    THEN [ok |-> TRUE, res |-> res]
    ELSE LET file == Head(args)
         IN  IF EndsWith(file, T_txt)
             THEN IF OpenText(file) = <<>>
                  THEN [ok |-> FALSE, res |-> res]
                  ELSE LET lines == ReadLines(OpenText(file)[1])
                       IN  HandleMediaFile(Tail(args),
                               res \o [i \in 1..Len(lines) |-> Absolute(PathOf(lines[i]))])
             ELSE HandleMediaFile(Tail(args), Append(res, Absolute(PathOf(file))))

\* _handle_model_configs: an argument that is no text has no endswith; a text
\* is json, or the path of a file of json when it ends in .json
HandleModelConfigs(arg) ==
    IF arg.py # "str"
    THEN [ok |-> FALSE, err |-> "AttributeError", cfg |-> EmptyMap]
    ELSE [ok |-> TRUE, err |-> "", cfg |-> arg.cfg]

Ev(e, i, inst) == [ev |-> e, i |-> i, inst |-> inst]

Doc(i, by, tr) == [src |-> i, by |-> by, tr |-> tr]

\* an exception nothing catches: it ends run
Abort(e) ==
    /\ pc' = "aborted"
    /\ error' = e

\* lines 81-85
HandleArguments ==
    /\ pc = "start"
    /\ LET r == HandleMediaFile(media_file_arg, <<>>)
           c == HandleModelConfigs(model_configs)
       IN  IF ~r.ok
           THEN Abort("FileNotFoundError") /\ UNCHANGED files
           ELSE /\ files' = r.res
                /\ IF ~c.ok
                   THEN Abort(c.err)
                   ELSE pc' = "create_model" /\ UNCHANGED error
    /\ UNCHANGED << inputs, idx, model, tr_model, subs, file_name, saved, log >>
    /\ UNCHANGED whisper_vars

\* SubsAI.create_model up to the loading of the model: the registry's lookup,
\* then the backend's own resolution of its configuration
RegistryCreate(name, cfg) ==
    IF name \notin AvailableTranscriptionModels
    THEN [ok |-> FALSE, err |-> "UnknownModelError", attrs |-> EmptyMap,
          decode_options |-> EmptyMap]
    ELSE WhisperInit(cfg)

\* an eager construction of the translation backend at line 88
TrModelBuiltAtStart == <<1>>

\* line 88: tr_model = None
InitialTrModel == <<>>

\* lines 86-88: subs_ai.create_model(model_name, model_configs), which ends in
\* whisper_timestamped.load_model (lines 234-237 of the backend)
CreateModel ==
    /\ pc = "create_model"
    /\ LET r == RegistryCreate(model_name, HandleModelConfigs(model_configs).cfg)
       IN  IF ~r.ok
           THEN Abort(r.err) /\ UNCHANGED << model, tr_model, log >>
           ELSE \E loaded \in BOOLEAN :
                   IF loaded
                   THEN /\ model' = <<[inst |-> 1, attrs |-> r.attrs,
                                       decode_options |-> r.decode_options]>>
                        /\ tr_model' = InitialTrModel
                        /\ log' = Append(log, Ev("create_model", 0, 1))
                        /\ pc' = "for"
                        /\ UNCHANGED error
                   ELSE /\ Abort("ModelInitializationError")
                        /\ log' = Append(log, Ev("load_model_failed", 0, 0))
                        /\ UNCHANGED << model, tr_model >>
    /\ UNCHANGED << inputs, files, idx, subs, file_name, saved >>
    /\ UNCHANGED whisper_vars

\* lines 89-93: the next file of the loop, skipped when it does not exist
NextFile ==
    /\ pc = "for"
    /\ idx < Len(files)
    /\ idx' = idx + 1
    /\ IF files[idx + 1] \in fs
       THEN pc' = "transcribe" /\ UNCHANGED log
       ELSE pc' = "for" /\ log' = Append(log, Ev("warning", idx + 1, 0))
    /\ UNCHANGED << inputs, files, model, tr_model, subs, file_name, saved, error >>
    /\ UNCHANGED whisper_vars

\* a backend constructed anew for the file in hand
ModelBuiltPerFile(m) == m[1].inst + idx

\* line 94: the backend handed to transcribe is the one line 87 bound to model
ModelPassed(m) == m[1].inst

\* line 94 inside a try whose handler reports the failure and goes on with the
\* next file
TranscribeFailureCaught ==
    /\ pc = "transcribe"
    /\ \E raised \in BOOLEAN :
          IF raised
          THEN /\ pc' = "for"
               /\ error' = "TranscriptionError"
               /\ UNCHANGED << subs, log >>
          ELSE /\ subs' = <<Doc(idx, ModelPassed(model), 0)>>
               /\ log' = Append(log, Ev("transcribe", idx, ModelPassed(model)))
               /\ pc' = "output_path"
               /\ UNCHANGED error
    /\ UNCHANGED << inputs, files, idx, model, tr_model, file_name, saved >>
    /\ UNCHANGED whisper_vars

\* line 94: subs_ai.transcribe(file, model)
Transcribe ==
    /\ pc = "transcribe"
    /\ \E raised \in BOOLEAN :
          IF raised
          THEN Abort("TranscriptionError") /\ UNCHANGED << subs, log >>
          ELSE /\ subs' = <<Doc(idx, ModelPassed(model), 0)>>
               /\ log' = Append(log, Ev("transcribe", idx, ModelPassed(model)))
               /\ pc' = "output_path"
               /\ UNCHANGED error
    /\ UNCHANGED << inputs, files, idx, model, tr_model, file_name, saved >>
    /\ UNCHANGED whisper_vars

\* the output folder with the destination folder ignored
OutputFolderOfSource(file, dest) == Parent(file)

\* lines 95-102: the folder the output goes to ...
OutputFolder(file, dest) ==
    IF dest # <<>> THEN Absolute(PathOf(dest[1])) ELSE Parent(file)

\* ... and the output path
OutputFileName(file, dest, fmt) ==
    Div(OutputFolder(file, dest), Stem(file) \o <<".">> \o fmt)

\* line 104 with the backend taken as missing for every file
TrModelNeverKept(t) == TRUE

\* line 104
TrModelIsNone(t) == t = <<>>

\* lines 95-103
OutputPath ==
    /\ pc = "output_path"
    /\ LET folder == OutputFolder(files[idx], destination_folder)
           after  == IF translation_model = <<>>
                     THEN "save"
                     ELSE IF TrModelIsNone(tr_model) THEN "create_tr" ELSE "translate"
       IN  IF destination_folder # <<>> /\ folder \notin fs
           THEN \E made \in BOOLEAN :
                   IF made
                   THEN /\ fs' = fs \cup {folder}
                        /\ log' = Append(log, Ev("makedirs", idx, 0))
                        /\ file_name' = <<OutputFileName(files[idx], destination_folder, subs_format)>>
                        /\ pc' = after
                        /\ UNCHANGED error
                   ELSE /\ Abort("OSError")
                        /\ UNCHANGED << fs, log, file_name >>
           ELSE /\ file_name' = <<OutputFileName(files[idx], destination_folder, subs_format)>>
                /\ pc' = after
                /\ UNCHANGED << fs, log, error >>
    /\ UNCHANGED << media_file_arg, list_text, model_name, model_configs,
                    destination_folder, subs_format, translation_model,
                    translation_configs, files, idx, model, tr_model, subs, saved >>
    /\ UNCHANGED whisper_vars

\* the translation backends constructed so far
TrConstructions == Len(SelectSeq(log, LAMBDA e : e.ev = "create_translation_model"))

\* lines 104-106: tools.create_translation_model(translation_model)
CreateTranslationModel ==
    /\ pc = "create_tr"
    /\ IF translation_model[1] \notin AvailableTranslationModels
       THEN Abort("UnknownModelError") /\ UNCHANGED << tr_model, log >>
       ELSE \E built \in BOOLEAN :
               IF built
               THEN /\ tr_model' = <<TrConstructions + 1>>
                    /\ log' = Append(log, Ev("create_translation_model", idx, TrConstructions + 1))
                    /\ pc' = "translate"
                    /\ UNCHANGED error
               ELSE /\ Abort("ModelInitializationError")
                    /\ UNCHANGED << tr_model, log >>
    /\ UNCHANGED << inputs, files, idx, model, subs, file_name, saved >>
    /\ UNCHANGED whisper_vars

\* line 107 with the result of translate thrown away: subs stays the original
TranslationDropped(doc, tr) == doc

\* line 107: subs is rebound to the document translate returns, made of the
\* document handed to it by the backend handed to it
Translated(doc, tr) == Doc(doc.src, doc.by, tr)

\* lines 107-112: tools.translate(subs, ..., model=tr_model, translation_configs)
Translate ==
    /\ pc = "translate"
    /\ IF translation_configs # "valid"
       THEN Abort("ConfigValidationError") /\ UNCHANGED << subs, log >>
       ELSE \E raised \in BOOLEAN :
               IF raised
               THEN Abort("TranslationError") /\ UNCHANGED << subs, log >>
               ELSE /\ subs' = <<Translated(subs[1], tr_model[1])>>
                    /\ log' = Append(log, Ev("translate", idx, tr_model[1]))
                    /\ pc' = "save"
                    /\ UNCHANGED error
    /\ UNCHANGED << inputs, files, idx, model, tr_model, file_name, saved >>
    /\ UNCHANGED whisper_vars

\* lines 113-114 with a failed write reported and skipped like a missing input
SaveFailureSkipped ==
    /\ pc = "save"
    /\ \E raised \in BOOLEAN :
          IF raised
          THEN /\ pc' = "for"
               /\ error' = "OSError"
               /\ UNCHANGED << fs, saved, log >>
          ELSE /\ saved' = (file_name[1] :> subs[1]) @@ saved
               /\ fs' = fs \cup {file_name[1]}
               /\ log' = Append(log, Ev("save", idx, 0))
               /\ pc' = "for"
               /\ UNCHANGED error
    /\ UNCHANGED << media_file_arg, list_text, model_name, model_configs,
                    destination_folder, subs_format, translation_model,
                    translation_configs, files, idx, model, tr_model, subs, file_name >>
    /\ UNCHANGED whisper_vars

\* lines 113-114: subs.save(file_name)
Save ==
    /\ pc = "save"
    /\ \E raised \in BOOLEAN :
          IF raised
          THEN Abort("OSError") /\ UNCHANGED << fs, saved, log >>
          ELSE /\ saved' = (file_name[1] :> subs[1]) @@ saved
               /\ fs' = fs \cup {file_name[1]}
               /\ log' = Append(log, Ev("save", idx, 0))
               /\ pc' = "for"
               /\ UNCHANGED error
    /\ UNCHANGED << media_file_arg, list_text, model_name, model_configs,
                    destination_folder, subs_format, translation_model,
                    translation_configs, files, idx, model, tr_model, subs, file_name >>
    /\ UNCHANGED whisper_vars

\* line 115 reached from inside the loop, whatever is left of the list
FinishBeforeExhausted ==
    /\ pc = "for"
    /\ pc' = "done"
    /\ UNCHANGED << inputs, files, idx, model, tr_model, subs, file_name, saved, log, error >>
    /\ UNCHANGED whisper_vars

\* line 115, reached when the for loop of line 89 has run out of files
Finish ==
    /\ pc = "for"
    /\ idx = Len(files)
    /\ pc' = "done"
    /\ UNCHANGED << inputs, files, idx, model, tr_model, subs, file_name, saved, log, error >>
    /\ UNCHANGED whisper_vars

(***************************************************************************)
(* The runs of the model.                                                  *)
(***************************************************************************)
\* the paths that may exist when run starts
FsUniverse ==
    { Absolute(PathOf(T_am)), Absolute(PathOf(T_dam)), Absolute(PathOf(T_b)),
      Absolute(PathOf(Append(T_am, NL))), Absolute(PathOf(T_out)) }

DictArg(c) == [py |-> "dict", cfg |-> c]

StrArg(c) == [py |-> "str", cfg |-> c]

\* --model-configs: the dict argparse defaults to, or json text
PipelineConfigArgs ==
    { DictArg(EmptyMap), StrArg(EmptyMap), StrArg("task" :> "junk"),
      StrArg("seed" :> "7") }

Fresh ==
    /\ pc = "start"
    /\ files = <<>>
    /\ idx = 0
    /\ model = <<>>
    /\ tr_model = <<>>
    /\ subs = <<>>
    /\ file_name = <<>>
    /\ saved = [p \in {} |-> Doc(0, 0, 0)]
    /\ log = <<>>
    /\ error = ""
    /\ w_pc = "idle"
    /\ kwargs = <<>>
    /\ results = <<>>
    /\ segment = 0
    /\ word = 0
    /\ w_subs = <<>>

\* the paths a run with these arguments can name: those of the arguments and
\* of the lines of the batch list, as written and stripped, and the folder
NamedPaths(args, text, dest) ==
    LET lines == IF text = <<>> THEN <<>> ELSE ReadLines(text[1])
    IN  {Absolute(PathOf(args[i])) : i \in {j \in 1..Len(args) : ~EndsWith(args[j], T_txt)}}
        \cup {Absolute(PathOf(lines[i])) : i \in 1..Len(lines)}
        \cup {Absolute(PathOf(RStrip(lines[i]))) : i \in 1..Len(lines)}
        \cup {Absolute(PathOf(dest[i])) : i \in 1..Len(dest)}

HasList(args) == \E i \in 1..Len(args) : args[i] = T_list

OneList(args) == Cardinality({i \in 1..Len(args) : args[i] = T_list}) = 1

\* a run: its arguments, the batch list (when an argument names it) and the
\* file system, with the options drawn from the given sets
InitWith(argss, names, configs, dests, trs, trconfigs) ==
    /\ media_file_arg \in argss
    /\ list_text \in IF HasList(media_file_arg)
                     THEN {<<>>} \cup {<<t>> : t \in ListTexts}
                     ELSE {<<>>}
    /\ destination_folder \in dests
    /\ fs \in SUBSET (FsUniverse \cap NamedPaths(media_file_arg, list_text, destination_folder))
    /\ model_name \in names
    /\ model_configs \in configs
    /\ subs_format = T_srt
    /\ translation_model \in trs
    /\ translation_configs \in trconfigs
    /\ Fresh

ArgLists == SeqsUpTo(ArgTexts, MaxArgs) \ {<<>>}

\* every combination of options on plain arguments, and every batch with one
\* batch list among its arguments on options that let a run go through
Init ==
    \/ InitWith({a \in ArgLists : ~HasList(a)},
                {"openai/whisper", "nope"}, PipelineConfigArgs, {<<>>, <<T_out>>},
                {<<>>, <<"m2m100">>, <<"nope">>}, {"valid", "invalid"})
    \/ InitWith({a \in ArgLists : OneList(a)},
                {"openai/whisper"}, {StrArg(EmptyMap)}, {<<>>},
                {<<"m2m100">>}, {"valid"})

Next ==
    \/ HandleArguments
    \/ CreateModel
    \/ NextFile
    \/ Transcribe
    \/ OutputPath
    \/ CreateTranslationModel
    \/ Translate
    \/ Save
    \/ Finish

Spec == Init /\ [][Next]_vars

\* run is one sequential thread: while a statement is left to execute, it is
\* executed
\* the runs whose options are all valid, so that run ends early only when a
\* step raises: on plain arguments, and on one batch list
InitFair ==
    \/ InitWith({a \in ArgLists : ~HasList(a)},
                {"openai/whisper"}, {StrArg(EmptyMap)}, {<<>>, <<T_out>>},
                {<<>>, <<"m2m100">>}, {"valid"})
    \/ InitWith({<<T_list>>},
                {"openai/whisper"}, {StrArg(EmptyMap)}, {<<>>},
                {<<"m2m100">>}, {"valid"})

SpecFair == InitFair /\ [][Next]_vars /\ WF_vars(Next)

(***************************************************************************)
(* The construction of the backend on its own, over many configurations.   *)
(***************************************************************************)
ConfigKeys == {"model_type", "verbose", "task", "seed", "bogus_option"}

ConfigValues == {"tiny", "True", "translate", "7"}

\* the user configurations: a value for some of the keys
Configs == UNION {[ks -> ConfigValues] : ks \in SUBSET ConfigKeys}

InitConfig ==
    /\ media_file_arg = <<T_am>>
    /\ list_text = <<>>
    /\ destination_folder = <<>>
    /\ fs = {}
    /\ model_name \in {"openai/whisper", "nope"}
    /\ model_configs \in {DictArg(EmptyMap)} \cup {StrArg(c) : c \in Configs}
    /\ subs_format = T_srt
    /\ translation_model = <<>>
    /\ translation_configs = "valid"
    /\ Fresh

NextConfig ==
    \/ HandleArguments
    \/ CreateModel

SpecConfig == InitConfig /\ [][NextConfig]_vars

(***************************************************************************)
(* WhisperTimeStamped.transcribe: the recognition call and the document    *)
(* made of its result.                                                     *)
(***************************************************************************)
MaxSegments == 2

MaxWords == 2

\* str.strip(): whitespace taken off both ends
RECURSIVE LStrip(_)
LStrip(s) ==
    IF s # <<>> /\ Head(s) \in Whitespace THEN LStrip(Tail(s)) ELSE s

Strip(s) == LStrip(RStrip(s))

\* pysubs2.make_time(s=...): int(round(s * 1000)), round being Python's, which
\* takes a half to the even neighbour. Seconds are counted in halves of a
\* millisecond, the result is in milliseconds
MakeTime(s) ==
    LET q == s \div 2
    IN  IF s % 2 = 0 THEN q
        ELSE IF q % 2 = 0 THEN q ELSE q + 1

\* a word of the recognition result; start and end in halves of a millisecond
WordOf(s, e, t) == [start |-> s, end |-> e, text |-> t]

\* the words the recognition results are made of: one that ends before it
\* starts, with whitespace around and inside its text, and one of nothing but
\* whitespace that starts before the other
Words ==
    { WordOf(3, 1, <<" ", "a", " ", "b", NL>>), WordOf(0, 2, <<" ">>) }

Segments == {[words |-> w] : w \in SeqsUpTo(Words, MaxWords)}

\* what whisper_timestamped.transcribe may return: results['segments']
Results == SeqsUpTo(Segments, MaxSegments)

\* the keywords lines 242-247 write out, in order
ExplicitKeywords ==
    << "verbose", "temperature", "compression_ratio_threshold",
       "logprob_threshold", "no_speech_threshold", "condition_on_previous_text" >>

\* the keys of a dict in the order of the schema, which is the order the
\* comprehension of lines 230-232 inserted them in
KeysInOrder(d) == LET In(k) == k \in DOMAIN d IN SelectSeq(SchemaKeys, In)

\* the recognition call with the load-time options written out as keywords too
RecognitionKeywordsWithLoadOptions(m) ==
    [i \in 1..Len(NamedAttrs) |-> [name |-> NamedAttrs[i], value |-> m.attrs[NamedAttrs[i]]]]
    \o [i \in 1..Len(KeysInOrder(m.decode_options)) |->
           [name  |-> KeysInOrder(m.decode_options)[i],
            value |-> m.decode_options[KeysInOrder(m.decode_options)[i]]]]

\* lines 241-249: the keyword arguments of the recognition call, the explicit
\* ones and then **self.decode_options
RecognitionKeywords(m) ==
    [i \in 1..Len(ExplicitKeywords) |->
        [name |-> ExplicitKeywords[i], value |-> m.attrs[ExplicitKeywords[i]]]]
    \o [i \in 1..Len(KeysInOrder(m.decode_options)) |->
           [name  |-> KeysInOrder(m.decode_options)[i],
            value |-> m.decode_options[KeysInOrder(m.decode_options)[i]]]]

\* a keyword given twice, which Python refuses with a TypeError
RepeatedKeyword(kw) ==
    \E i, j \in 1..Len(kw) : i # j /\ kw[i].name = kw[j].name

pipeline_vars ==
    << media_file_arg, list_text, fs, model_name, model_configs,
       destination_folder, subs_format, translation_model, translation_configs,
       pc, files, idx, model, tr_model, subs, file_name, saved, log, error >>

\* lines 240-250: load_audio and the recognition call, either of which may
\* raise, then subs = SSAFile()
Recognize ==
    /\ w_pc = "called"
    /\ LET kw == RecognitionKeywords(model[1])
       IN  IF RepeatedKeyword(kw)
           THEN /\ w_pc' = "TypeError"
                /\ UNCHANGED << kwargs, results >>
           ELSE /\ kwargs' = <<kw>>
                /\ \E raised \in BOOLEAN :
                      IF raised
                      THEN w_pc' = "raised" /\ UNCHANGED results
                      ELSE \E r \in Results :
                              /\ results' = <<r>>
                              /\ w_pc' = "segments"
    /\ UNCHANGED << segment, word, w_subs >>
    /\ UNCHANGED pipeline_vars

\* line 251: the next segment of the result
NextSegment ==
    /\ w_pc = "segments"
    /\ segment < Len(results[1])
    /\ segment' = segment + 1
    /\ word' = 0
    /\ w_pc' = "words"
    /\ UNCHANGED << kwargs, results, w_subs >>
    /\ UNCHANGED pipeline_vars

\* lines 253-254: the event of a word
EventOf(w) ==
    [start |-> MakeTime(w.start), end |-> MakeTime(w.end), plaintext |-> Strip(w.text)]

\* the event put in front of the document
SubsPrepend(document, event) == <<event>> \o document

\* line 255: subs.append(event)
SubsAppend(document, event) == Append(document, event)

\* lines 252-255: the next word of the segment in hand
NextWord ==
    /\ w_pc = "words"
    /\ word < Len(results[1][segment].words)
    /\ word' = word + 1
    /\ w_subs' = SubsAppend(w_subs, EventOf(results[1][segment].words[word + 1]))
    /\ UNCHANGED << w_pc, kwargs, results, segment >>
    /\ UNCHANGED pipeline_vars

\* line 252: the words of the segment have run out
EndSegment ==
    /\ w_pc = "words"
    /\ word = Len(results[1][segment].words)
    /\ w_pc' = "segments"
    /\ UNCHANGED << kwargs, results, segment, word, w_subs >>
    /\ UNCHANGED pipeline_vars

\* line 256: return subs
ReturnSubs ==
    /\ w_pc = "segments"
    /\ segment = Len(results[1])
    /\ w_pc' = "returned"
    /\ UNCHANGED << kwargs, results, segment, word, w_subs >>
    /\ UNCHANGED pipeline_vars

\* the configurations the backend is constructed from here: none, named
\* attributes, decode options, and both
TranscribeConfigs ==
    { EmptyMap,
      ("model_type" :> "tiny") @@ ("verbose" :> "True"),
      ("task" :> "translate") @@ ("seed" :> "7"),
      ("model_type" :> "tiny") @@ ("verbose" :> "True") @@ ("task" :> "translate")
          @@ ("seed" :> "7") }

\* run at line 94 for the file a.m, with the backend constructed and its
\* transcribe just called
InitTranscribe ==
    /\ media_file_arg = <<T_am>>
    /\ list_text = <<>>
    /\ destination_folder = <<>>
    /\ fs = {Absolute(PathOf(T_am))}
    /\ model_name = "openai/whisper"
    /\ model_configs \in {StrArg(c) : c \in TranscribeConfigs}
    /\ subs_format = T_srt
    /\ translation_model = <<>>
    /\ translation_configs = "valid"
    /\ pc = "transcribe"
    /\ files = <<Absolute(PathOf(T_am))>>
    /\ idx = 1
    /\ model = <<[inst |-> 1, attrs |-> WhisperInit(model_configs.cfg).attrs,
                  decode_options |-> WhisperInit(model_configs.cfg).decode_options]>>
    /\ tr_model = <<>>
    /\ subs = <<>>
    /\ file_name = <<>>
    /\ saved = [p \in {} |-> Doc(0, 0, 0)]
    /\ log = <<Ev("create_model", 0, 1)>>
    /\ error = ""
    /\ w_pc = "called"
    /\ kwargs = <<>>
    /\ results = <<>>
    /\ segment = 0
    /\ word = 0
    /\ w_subs = <<>>

NextTranscribe ==
    \/ Recognize
    \/ NextSegment
    \/ NextWord
    \/ EndSegment
    \/ ReturnSubs

SpecTranscribe == InitTranscribe /\ [][NextTranscribe]_vars

(***************************************************************************)
(* What the log tells.                                                     *)
(***************************************************************************)
\* the positions of the log holding an event of kind e
At(e) == {p \in 1..Len(log) : log[p].ev = e}

\* the files (positions of `files`) an event of kind e happened for
FilesOf(e) == {log[p].i : p \in At(e)}

\* the lines of the batch list
ListLines == IF list_text = <<>> THEN <<>> ELSE ReadLines(list_text[1])

\* the file line k of the batch list names
LineFile(k) == Absolute(PathOf(RStrip(ListLines[k])))

\* whether run got past the reading of its arguments
ArgumentsRead == pc # "start" /\ error # "FileNotFoundError"

(***************************************************************************)
(* C1: a media reference whose path does not exist is reported and skipped *)
(* with no other effect, the later references are still processed and the  *)
(* run still finishes; for a batch list of 3 lines whose line 2 does not   *)
(* exist, exactly files 1 and 3 are transcribed and exported.              *)
(***************************************************************************)
C1_MissingFileSkipped ==
    /\ \A i \in FilesOf("warning") :
          \A p \in 1..Len(log) : log[p].i = i => log[p].ev = "warning"
    /\ ( /\ pc = "done"
         /\ media_file_arg = <<T_list>>
         /\ Len(ListLines) = 3
         /\ \A k \in 1..3 : RStrip(ListLines[k]) # <<>>
         /\ LineFile(1) \in fs
         /\ LineFile(2) \notin fs
         /\ LineFile(3) \in fs )
       => /\ {files[i] : i \in FilesOf("transcribe")} = {LineFile(1), LineFile(3)}
          /\ {files[i] : i \in FilesOf("save")} = {LineFile(1), LineFile(3)}
          /\ FilesOf("warning") # {}

(***************************************************************************)
(* C2: the translation backend is constructed at most once in a run, and   *)
(* exactly once when files reach the translating step; every translate     *)
(* call is handed the instance built for the first such file.              *)
(***************************************************************************)
C2_OneTranslationBackend ==
    /\ Cardinality(At("create_translation_model")) <= 1
    /\ \A q \in At("translate") :
          \E p \in At("create_translation_model") :
             p < q /\ log[q].inst = log[p].inst
    /\ pc = "translate" =>
          \E p \in At("create_translation_model") : tr_model = <<log[p].inst>>

C2_Witness ==
    /\ pc = "done"
    /\ Cardinality(At("translate")) >= 2

(***************************************************************************)
(* C3: the translation backend is not constructed before the loop starts;  *)
(* it is constructed only for the first file that was transcribed, after   *)
(* that transcription, and never when no translation model is requested or *)
(* no file is transcribed.                                                 *)
(***************************************************************************)
C3_LazyTranslationBackend ==
    /\ pc \in {"start", "create_model"} =>
          tr_model = <<>> /\ At("create_translation_model") = {}
    /\ tr_model # <<>> => At("create_translation_model") # {}
    /\ \A p \in At("create_translation_model") :
          \E q \in At("transcribe") :
             /\ q < p
             /\ log[q].i = log[p].i
             /\ \A r \in At("transcribe") : q <= r
    /\ translation_model = <<>> =>
          tr_model = <<>> /\ At("create_translation_model") = {}

C3_Witness ==
    \E p \in At("create_translation_model") :
       \E w \in At("warning") : w < p /\ tr_model # <<>>

(***************************************************************************)
(* C4: every document is saved to destination_folder/stem.format when a    *)
(* destination folder is given and to source_parent/stem.format otherwise, *)
(* stem and source_parent being those of the media reference.              *)
(***************************************************************************)
C4_Folder(f) ==
    IF destination_folder # <<>>
    THEN Absolute(PathOf(destination_folder[1]))
    ELSE [abs |-> f.abs, parts |-> SubSeq(f.parts, 1, Len(f.parts) - 1)]

C4_Expected(f) ==
    [abs   |-> TRUE,
     parts |-> Append(C4_Folder(f).parts, Stem(f) \o <<".">> \o subs_format)]

C4_OutputPath ==
    /\ \A p \in DOMAIN saved : p = C4_Expected(files[saved[p].src])
    /\ pc = "save" => file_name = <<C4_Expected(files[idx])>>

C4_Witness ==
    /\ pc = "done"
    /\ destination_folder # <<>>
    /\ \E p \in DOMAIN saved : files[saved[p].src] = Absolute(PathOf(T_dam))

(***************************************************************************)
(* C5: the resolved list is the arguments in their order with each batch   *)
(* list expanded in place in line order, and files are processed in the    *)
(* order of that list: no file before one that precedes it, none twice.    *)
(***************************************************************************)
C5_Expand(arg, lines) ==
    IF EndsWith(arg, T_txt)
    THEN [k \in 1..Len(lines) |-> Absolute(PathOf(lines[k]))]
    ELSE <<Absolute(PathOf(arg))>>

C5_InPlace(args, lines) ==
    Concat([j \in 1..Len(args) |-> C5_Expand(args[j], lines)])

C5_ProcessedInOrder ==
    /\ ArgumentsRead => files = C5_InPlace(media_file_arg, ListLines)
    /\ \A p \in 1..(Len(log) - 1) : log[p].i <= log[p + 1].i
    /\ \A e \in {"transcribe", "save"} :
          \A p, q \in At(e) : p # q => log[p].i # log[q].i
    /\ \A q \in At("save") :
          \E p \in At("transcribe") : p < q /\ log[p].i = log[q].i

C5_Witness ==
    /\ pc = "done"
    /\ media_file_arg = <<T_list, T_dam>>
    /\ Cardinality(At("save")) = 3

(***************************************************************************)
(* C6: resolving a batch list yields one reference per non-empty line, in  *)
(* line order, each the line without its trailing whitespace as an         *)
(* absolute path; an empty line yields none, a plain argument yields one.  *)
(***************************************************************************)
C6_NonEmpty(line) == RStrip(line) # <<>>

C6_References(j) ==
    IF EndsWith(media_file_arg[j], T_txt)
    THEN LET kept == SelectSeq(ListLines, C6_NonEmpty)
         IN  [k \in 1..Len(kept) |-> Absolute(PathOf(RStrip(kept[k])))]
    ELSE <<Absolute(PathOf(media_file_arg[j]))>>

C6_LinesTrimmed ==
    ArgumentsRead =>
       files = Concat([j \in 1..Len(media_file_arg) |-> C6_References(j)])

(***************************************************************************)
(* C7: constructing the backend with a configuration that holds a key the  *)
(* schema does not declare never succeeds.                                 *)
(***************************************************************************)
C7_UnknownKeyRejected ==
    model # <<>> => DOMAIN model_configs.cfg \subseteq SchemaKeySet

(***************************************************************************)
(* C8: construction either fails, leaving no backend, or resolves every    *)
(* key of the schema, each held as a named attribute or in decode_options. *)
(***************************************************************************)
C8_FullyResolved ==
    /\ model # <<>> =>
          DOMAIN model[1].attrs \cup DOMAIN model[1].decode_options = SchemaKeySet
    /\ error # "" => model = <<>>

C8_Witness ==
    /\ model # <<>>
    /\ DOMAIN model_configs.cfg = {"model_type", "task"}

(***************************************************************************)
(* C9: a key the user configuration does not hold resolves to its schema   *)
(* default and a key it holds resolves to the user's value, for named      *)
(* attributes and for decode_options alike.                                *)
(***************************************************************************)
C9_Resolved(k) ==
    IF k \in DOMAIN model[1].attrs
    THEN model[1].attrs[k]
    ELSE model[1].decode_options[k]

C9_DefaultsAndUserValues ==
    model # <<>> =>
       /\ \A k \in SchemaKeySet :
             /\ k \in DOMAIN model[1].attrs \cup DOMAIN model[1].decode_options
             /\ C9_Resolved(k) = IF k \in DOMAIN model_configs.cfg
                                 THEN model_configs.cfg[k]
                                 ELSE config_schema[k].default
       /\ "model_type" \notin DOMAIN model_configs.cfg => C9_Resolved("model_type") = "base"
       /\ "seed" \notin DOMAIN model_configs.cfg => C9_Resolved("seed") = "1234"

C9_Witness ==
    /\ model # <<>>
    /\ DOMAIN model_configs.cfg = {"verbose", "task"}
    /\ C9_Resolved("task") = "translate"
    /\ C9_Resolved("seed") = "1234"

(***************************************************************************)
(* C10: an invalid configuration or an unknown model identifier, of the    *)
(* transcription or of the translation, is detected before any backend is  *)
(* constructed and before any file is transcribed.                         *)
(***************************************************************************)
ValidationErrors ==
    {"UnknownModelError", "UnknownOptionError", "InvalidOptionValueError",
     "ConfigValidationError"}

C10_ValidationFirst ==
    error \in ValidationErrors =>
       /\ model = <<>>
       /\ tr_model = <<>>
       /\ At("transcribe") = {}

(***************************************************************************)
(* C11: the transcription backend is constructed exactly once, before the  *)
(* first file is examined, and that one instance transcribes every file;   *)
(* when its construction fails the run aborts with no file transcribed,    *)
(* translated or exported.                                                 *)
(***************************************************************************)
C11_OneTranscriptionBackend ==
    /\ Cardinality(At("create_model")) <= 1
    /\ pc \in {"for", "transcribe", "output_path", "create_tr", "translate", "save", "done"} =>
          Cardinality(At("create_model")) = 1
    /\ (model # <<>>) <=> (At("create_model") # {})
    /\ idx > 0 => model # <<>>
    /\ \A p \in 1..Len(log) :
          log[p].i >= 1 => \E c \in At("create_model") : c < p
    /\ \A q \in At("transcribe") :
          \E c \in At("create_model") :
             log[q].inst = log[c].inst /\ model[1].inst = log[c].inst
    /\ \A p \in DOMAIN saved : saved[p].by = model[1].inst
    /\ (At("load_model_failed") # {} \/ (error = "ModelInitializationError" /\ model = <<>>)) =>
          /\ pc = "aborted"
          /\ idx = 0
          /\ At("transcribe") \cup At("translate") \cup At("save") = {}
          /\ DOMAIN saved = {}

C11_Witness ==
    /\ pc = "done"
    /\ Cardinality(At("transcribe")) >= 2
    /\ \A q \in At("transcribe") : log[q].inst = model[1].inst

(***************************************************************************)
(* C12: when transcribe raises for file k nothing catches it: run ends     *)
(* there, file k is not exported, nothing is done for a later file, run    *)
(* does not finish, and the outputs written before are left as they are.   *)
(***************************************************************************)
C12_TranscribeFailureAborts ==
    /\ [](error = "TranscriptionError" =>
             /\ pc = "aborted"
             /\ idx \in 1..Len(files)
             /\ \A p \in 1..Len(log) : log[p].i < idx
             /\ \A p \in DOMAIN saved : saved[p].src < idx)
    /\ [][(error' = "TranscriptionError" /\ error = "") =>
             (pc = "transcribe" /\ saved' = saved /\ fs' = fs /\ log' = log)]_vars
    /\ [][error # "TranscriptionError"]_vars

C12_Witness ==
    /\ error = "TranscriptionError"
    /\ idx = 2
    /\ At("save") # {}
    /\ Len(files) >= 2

(***************************************************************************)
(* C13: when the creation of the destination directory or the writing of   *)
(* the output of file k fails, the failure ends run: nothing is done for a *)
(* later file, run does not finish, and the failure is never skipped the   *)
(* way a missing input is.                                                 *)
(***************************************************************************)
C13_ExportFailureAborts ==
    /\ [](error = "OSError" =>
             /\ pc = "aborted"
             /\ idx \in 1..Len(files)
             /\ \A p \in 1..Len(log) : log[p].i <= idx
             /\ idx \notin FilesOf("save") \cup FilesOf("warning")
             /\ \A p \in DOMAIN saved : saved[p].src < idx)
    /\ [][(error' = "OSError" /\ error = "") =>
             (pc \in {"output_path", "save"} /\ saved' = saved /\ idx' = idx)]_vars
    /\ [][error # "OSError"]_vars

C13_Witness ==
    /\ error = "OSError"
    /\ pc = "aborted"
    /\ idx = 1
    /\ Len(files) = 2
    /\ files[2] \in fs
    /\ file_name # <<>>

(***************************************************************************)
(* C14: the steps of a file come in the order transcribe, translate (when  *)
(* requested), export, and every effect of the export, the creation of the *)
(* destination directory included, comes after the file's translation: a   *)
(* failed construction of the translation backend or a failed translate    *)
(* leaves no directory created for that file.                              *)
(***************************************************************************)
TranslationFailures ==
    {"TranslationError", "ConfigValidationError", "UnknownModelError",
     "ModelInitializationError"}

C14_ExportAfterTranslation ==
    /\ \A p \in At("translate") :
          \E q \in At("transcribe") : q < p /\ log[q].i = log[p].i
    /\ translation_model # <<>> =>
          \A p \in At("makedirs") \cup At("save") :
             \E q \in At("translate") : q < p /\ log[q].i = log[p].i
    /\ (model # <<>> /\ error \in TranslationFailures) =>
          idx \notin FilesOf("makedirs")

(***************************************************************************)
(* C15: every existing file gives one document, translated at most once    *)
(* and saved exactly once; the document saved is the one translate         *)
(* returned for that file when a translation model is requested and the    *)
(* one transcribe returned for it otherwise, and it is saved under the     *)
(* output path of the file it was made from, never under that of the file  *)
(* of another iteration.                                                   *)
(***************************************************************************)
C15_Once(e, i) == Cardinality({p \in At(e) : log[p].i = i})

C16_Visits(i) ==
    Cardinality({p \in At("warning") \cup At("transcribe") : log[p].i = i})

C16_ReachesFinished ==
    /\ <>(pc = "done" \/ error # "")
    /\ [](pc = "done" =>
             /\ error = ""
             /\ idx = Len(files)
             /\ \A i \in 1..Len(files) : C16_Visits(i) = 1)
    /\ [](pc = "aborted" => error # "")
    /\ [][idx' = idx \/ idx' = idx + 1]_vars

C16_Witness ==
    /\ pc = "done"
    /\ Len(files) = 2
    /\ At("warning") # {}
    /\ At("save") # {}

(***************************************************************************)
(* C17: the document transcribe returns holds exactly one event per word   *)
(* of the recognition result, in segment order and then in word order,     *)
(* each with the word's start time, end time and stripped text; no word is *)
(* dropped, merged or moved, and no time is checked or sorted.             *)
(***************************************************************************)
\* the words of the segments before position s and of the first w of segment s
C17_WordsUpTo(s, w) ==
    Concat([k \in 1..(s - 1) |-> results[1][k].words])
    \o (IF s = 0 THEN <<>> ELSE SubSeq(results[1][s].words, 1, w))

C17_AllWhitespace(t) == \A i \in 1..Len(t) : t[i] \in Whitespace

\* t is text without the whitespace at its two ends
C17_IsStripped(t, text) ==
    /\ t # <<>> => t[1] \notin Whitespace /\ t[Len(t)] \notin Whitespace
    /\ \E i \in 0..Len(text) :
          /\ i + Len(t) <= Len(text)
          /\ SubSeq(text, i + 1, i + Len(t)) = t
          /\ C17_AllWhitespace(SubSeq(text, 1, i))
          /\ C17_AllWhitespace(SubSeq(text, i + Len(t) + 1, Len(text)))

\* ms is the whole number of milliseconds nearest to s halves of a millisecond
C17_IsTime(ms, s) == 2 * ms - s \in {-1, 0, 1}

C17_Carries(event, w) ==
    /\ C17_IsTime(event.start, w.start)
    /\ C17_IsTime(event.end, w.end)
    /\ C17_IsStripped(event.plaintext, w.text)

C17_OneEventPerWord ==
    results # <<>> =>
       LET done == C17_WordsUpTo(segment, word)
       IN  /\ Len(w_subs) = Len(done)
           /\ \A k \in 1..Len(done) : C17_Carries(w_subs[k], done[k])
           /\ w_pc = "returned" =>
                 /\ segment = Len(results[1])
                 /\ Len(w_subs) = Len(Concat([k \in 1..Len(results[1]) |-> results[1][k].words]))

C17_Witness ==
    /\ w_pc = "returned"
    /\ Len(results[1]) = 2
    /\ w_subs = << [start |-> 0, end |-> 1, plaintext |-> <<>>],
                   [start |-> 2, end |-> 0, plaintext |-> <<"a", " ", "b">>],
                   [start |-> 0, end |-> 1, plaintext |-> <<>>] >>

(***************************************************************************)
(* C18: with --model-configs left at its default, the parsing of the       *)
(* configuration never fails: run resolves it to the empty mapping and     *)
(* goes on to construct the backend with every option at its default.      *)
(***************************************************************************)
C18_DefaultConfigsAccepted ==
    model_configs = DictArg(EmptyMap) =>
       /\ error # "AttributeError"
       /\ (ArgumentsRead /\ pc # "create_model" /\ model_name \in AvailableTranscriptionModels) =>
             (model # <<>> \/ error = "ModelInitializationError")
       /\ model # <<>> =>
             \A k \in SchemaKeySet : C9_Resolved(k) = config_schema[k].default

(***************************************************************************)
(* C19: the named attributes of the backend and the keys of decode_options *)
(* split the keys of the schema in two: no key is in both, the recognition *)
(* call is never given an option twice, and it is never given model_type,  *)
(* device, download_root or in_memory.                                     *)
(***************************************************************************)
C19_LoadTimeOptions == {"model_type", "device", "download_root", "in_memory"}

C19_Names(kw) == {kw[i].name : i \in 1..Len(kw)}

C19_OptionsPartitioned ==
    /\ model # <<>> =>
          /\ DOMAIN model[1].attrs \cap DOMAIN model[1].decode_options = {}
          /\ DOMAIN model[1].attrs \cup DOMAIN model[1].decode_options = SchemaKeySet
          /\ C19_LoadTimeOptions \subseteq DOMAIN model[1].attrs
    /\ w_pc # "TypeError"
    /\ kwargs # <<>> =>
          /\ Cardinality(C19_Names(kwargs[1])) = Len(kwargs[1])
          /\ C19_Names(kwargs[1]) \cap C19_LoadTimeOptions = {}
          /\ C19_Names(kwargs[1]) \subseteq SchemaKeySet
          /\ \A i \in 1..Len(kwargs[1]) :
                kwargs[1][i].value = C9_Resolved(kwargs[1][i].name)

C19_Witness ==
    /\ w_pc = "returned"
    /\ kwargs # <<>>
    /\ DOMAIN model_configs.cfg = {"model_type", "verbose", "task", "seed"}
    /\ \E i, j \in 1..Len(kwargs[1]) :
          /\ kwargs[1][i] = [name |-> "verbose", value |-> "True"]
          /\ kwargs[1][j] = [name |-> "task", value |-> "translate"]

(***************************************************************************)
(* C20: no export overwrites the output of an earlier distinct file of the *)
(* batch: when run finishes, every existing distinct media reference has   *)
(* its own output file, which holds its own document.                      *)
(***************************************************************************)
C20_Output(i) == OutputFileName(files[i], destination_folder, subs_format)

C20_NoOverwrite ==
    /\ \A i \in FilesOf("save") :
          \E p \in DOMAIN saved : files[saved[p].src] = files[i]
    /\ pc = "done" =>
          \A i, j \in FilesOf("save") :
             /\ C20_Output(i) \in DOMAIN saved
             /\ files[saved[C20_Output(i)].src] = files[i]
             /\ files[i] # files[j] => C20_Output(i) # C20_Output(j)

=============================================================================
